---- MODULE Spec2Model ----
(***************************************************************************)
(* Model of circuit_training/learning/train_ppo_lib.py: the resume         *)
(* computation compute_init_iteration and the outer training loop of       *)
(* train() (WAIT, TRAIN, PUBLISH, PURGE), together with the two services   *)
(* it talks to (variable container, training table) and the actors that    *)
(* pull snapshots and write trajectories concurrently.                     *)
(***************************************************************************)
EXTENDS Integers, Sequences, FiniteSets, TLC

VARIABLES
  sequence_length,             \* train() argument
  num_episodes_per_iteration,  \* train() argument
  num_epochs,                  \* train() argument
  per_replica_batch_size,      \* train() argument
  per_replica_batch_size_is_none, \* the argument was passed as None
  num_replicas_in_sync,        \* strategy.num_replicas_in_sync
  num_iterations,              \* train() argument
  init_train_step,             \* train() argument (the resumed step value)
  pc,                          \* position of the learner process in train()
  init_iteration,              \* local of train(), line 126
  i,                           \* loop variable of line 251
  train_step,                  \* tf variable train_step, line 134
  model_id,                    \* tf variable model_id, line 137
  policy,                      \* abstract value of the collect policy weights
  step_val,                    \* local of the loop, line 252
  num_steps,                   \* local of the loop, line 262
  steps_per_sec,               \* value of num_steps / run_time, line 264
  save_model_trigger,          \* the policy saver trigger, line 162
  server,                      \* snapshot held by the variable service
  inflight,                    \* snapshot of a push call that has not returned
  pushed,                      \* the learner's variables at each push call
  table,                       \* contents of 'training_table'
  clearing,                    \* entries a clear in progress is removing
  window_writes,               \* writes accepted since the last clear began
  clears,                      \* number of clears the table has executed
  actor_snapshot,              \* the snapshot each actor pulled last
  phase_log,                   \* completed phases of this process run
  fault,                       \* which step raised, "none" if none
  restarts,                    \* number of process restarts so far
  crashed_at,                  \* loop index at which the last crash happened
  prev                         \* previous (init_train_step, init_iteration)

config == <<sequence_length, num_episodes_per_iteration, num_epochs,
            per_replica_batch_size, per_replica_batch_size_is_none,
            num_replicas_in_sync, num_iterations>>
learner == <<init_iteration, i, train_step, model_id, policy, step_val,
             num_steps, steps_per_sec, save_model_trigger>>
varsvc == <<server, inflight, pushed>>
replay == <<table, clearing, window_writes, clears>>
process == <<restarts, crashed_at, prev>>
vars == <<config, init_train_step, pc, learner, varsvc, replay,
          actor_snapshot, phase_log, fault, process>>

----------------------------------------------------------------------------
(* Bounds of the model.                                                    *)
MaxIterations == 2
MaxTable == 2
MaxRestarts == 1
MaxFnStep == 4
MaxFnDim == 2
MaxFnBatch == 2

\* Values the remaining arguments of train() are drawn from.
SequenceLengths == {1, 2}
BatchSizes == {2, 3}
InitSteps == {0, 1}
EpisodeCounts == {2}
EpochCounts == {1, 2}
ReplicaCounts == {1}
IterationCounts == {0, MaxIterations}

\* The actors: Spec runs train(), with its failures and restarts, against one
\* actor; SpecActors runs it against both.
Actors == {1, 2}
OneActor == {1}
RunTimes == {0, 1}
InvalidDims == {-1, 0, 1}

NoSnapshot == [policy |-> -1, train_step |-> -1, model_id |-> -1]

----------------------------------------------------------------------------
(* compute_init_iteration, lines 43-67.                                    *)

Abs(x) == IF x < 0 THEN -x ELSE x

\* Python int() of a true-division quotient: truncation toward zero.
TruncDiv(n, d) ==
  LET q == Abs(n) \div Abs(d)
  IN IF (n < 0) # (d < 0) THEN -q ELSE q

\* True division by 0 raises ZeroDivisionError (also for a zero dividend).
ZeroDivision(sl, ne, ep) == sl = 0 \/ ne = 0 \/ ep = 0

\* int(init_train_step * per_replica_batch_size * num_replicas_in_sync /
\*     sequence_length / num_episodes_per_iteration / num_epochs).
\* The chain of float divisions is taken as the exact quotient: for the
\* magnitudes modelled the float error is far below the distance of a
\* non-integral quotient from the next integer.
compute_init_iteration_off_by_one(its, sl, ne, ep, bs, nr) ==
  TruncDiv(its * bs * nr - sl * ne * ep, sl * ne * ep)

compute_init_iteration_round(its, sl, ne, ep, bs, nr) ==
  TruncDiv(2 * its * bs * nr + sl * ne * ep, 2 * sl * ne * ep)

compute_init_iteration_no_batch(its, sl, ne, ep, bs, nr) ==
  TruncDiv(its * nr, sl * ne * ep)

compute_init_iteration_no_epochs(its, sl, ne, ep, bs, nr) ==
  TruncDiv(its * bs * nr, sl * ne)

compute_init_iteration(its, sl, ne, ep, bs, nr) ==
  TruncDiv(its * bs * nr, sl * ne * ep)

----------------------------------------------------------------------------
(* The learner (CircuittrainingPPOLearner) as train() uses it.             *)

\* Minibatch updates of one epoch over one iteration's data.
MinibatchesPerEpoch ==
  (sequence_length * num_episodes_per_iteration)
    \div (per_replica_batch_size * num_replicas_in_sync)

\* Number of train steps of one call of learner.run().
StepsPerIteration == num_epochs * MinibatchesPerEpoch

variables_at_creation == [policy |-> policy,
                          train_step |-> init_train_step,
                          model_id |-> init_iteration]

variables_stale_train_step == [policy |-> policy, train_step |-> step_val,
                               model_id |-> model_id]

\* The dict of lines 170-174, read at the moment of a push.
variables == [policy |-> policy, train_step |-> train_step,
              model_id |-> model_id]

\* The learner's three variables as they are at this moment.
Live == [policy |-> policy, train_step |-> train_step, model_id |-> model_id]

\* The variable service stores the snapshot of a push as one item, in place
\* of the item it held.
Push(held, vs) == vs

\* An actor's pull returns the item the service holds.
Pull(held) == held

\* The table service removes the n entries that were in the table when the
\* clear began and keeps the entries written since.
Clear(t, n) == SubSeq(t, n + 1, Len(t))

Entry(phase) == [phase |-> phase, i |-> i, model_id |-> model_id,
                 train_step |-> train_step, policy |-> policy]

\* train() has not yet entered the loop of line 251.
BeforeLoop == pc \in {"start", "create", "init_push", "INIT_PUSHING"}

\* Number of clear calls this run of train() has made: one per iteration
\* that has reached line 268, a call that raised included.
ClearsStarted ==
  IF BeforeLoop \/ (pc = "failed" /\ fault \in {"TYPE", "CONFIG"}) THEN 0
  ELSE IF \/ pc \in {"CLEARING", "SUMMARY"}
          \/ (pc = "failed" /\ fault \in {"PURGE", "OBS"})
    THEN i - init_iteration + 1
    ELSE i - init_iteration

\* num_steps / run_time of lines 264 and 273: the division of a numpy integer
\* by a float. A zero divisor gives nan for 0 and inf for a positive count.
NoRate == [kind |-> "none", value |-> 0]

StepsPerSec(n, run_time) ==
  IF run_time = 0
    THEN IF n = 0 THEN [kind |-> "nan", value |-> 0]
                  ELSE [kind |-> "inf", value |-> 0]
    ELSE [kind |-> "finite", value |-> n \div run_time]

\* The policy saver trigger of lines 162-167: an interval trigger on the
\* value of train_step. It remembers the value at which it fired last; the
\* model also keeps the values it was called with and the values it fired at.
NoTrigger == [last |-> 0, called |-> <<>>, fired |-> <<>>]

SaveModelTriggerStartLate == num_episodes_per_iteration

\* start=-num_episodes_per_iteration, line 166.
SaveModelTriggerStart == -num_episodes_per_iteration

\* interval=num_episodes_per_iteration, line 167.
SaveModelTriggerInterval == num_episodes_per_iteration

\* One invocation of the trigger with the current value of train_step: it
\* fires when the value is at least one interval past the last firing.
TriggerRun(t, value) ==
  IF SaveModelTriggerInterval > 0 /\ value >= t.last + SaveModelTriggerInterval
    THEN [last |-> value, called |-> Append(t.called, value),
          fired |-> Append(t.fired, value)]
    ELSE [t EXCEPT !.called = Append(t.called, value)]

----------------------------------------------------------------------------
(* Initial states: the moment train() is called.                           *)

InitRest ==
  /\ pc = "start"
  /\ init_iteration = 0 /\ i = 0 /\ train_step = 0 /\ model_id = 0
  /\ policy = 0 /\ step_val = 0 /\ num_steps = 0
  /\ steps_per_sec = NoRate
  /\ save_model_trigger = NoTrigger
  /\ server = NoSnapshot /\ inflight = NoSnapshot /\ pushed = {}
  /\ table = <<>> /\ clearing = 0 /\ window_writes = 0 /\ clears = 0
  /\ actor_snapshot = [a \in Actors |-> NoSnapshot]
  /\ phase_log = <<>> /\ fault = "none"
  /\ restarts = 0 /\ crashed_at = -1
  /\ prev = [step |-> -1, iteration |-> -1]

\* A run with the default num_episodes_per_iteration (line 92), num_epochs
\* (line 86) and per_replica_batch_size (line 85) of train(), on one replica
\* with sequences of length 1: 32 minibatches per epoch.
ExampleRun == [sl |-> 1, ne |-> 1024, ep |-> 4, bs |-> 32, nr |-> 1]

Init ==
  /\ \/ /\ sequence_length \in SequenceLengths
        /\ num_episodes_per_iteration \in EpisodeCounts
        /\ num_epochs \in EpochCounts
        /\ per_replica_batch_size \in BatchSizes
        /\ num_replicas_in_sync \in ReplicaCounts
        /\ num_iterations \in IterationCounts
        /\ init_train_step \in InitSteps
     \/ /\ sequence_length = ExampleRun.sl
        /\ num_episodes_per_iteration = ExampleRun.ne
        /\ num_epochs = ExampleRun.ep
        /\ per_replica_batch_size = ExampleRun.bs
        /\ num_replicas_in_sync = ExampleRun.nr
        /\ num_iterations = 1
        /\ init_train_step = 0
  /\ per_replica_batch_size_is_none = FALSE
  /\ InitRest

----------------------------------------------------------------------------
(* train(): start-up, lines 126-178.                                       *)

\* Lines 126-129, the batch size a number and the divisors all non-zero.
ComputeInit ==
  /\ pc = "start"
  /\ ~per_replica_batch_size_is_none
  /\ ~ZeroDivision(sequence_length, num_episodes_per_iteration, num_epochs)
  /\ init_iteration' = compute_init_iteration(
        init_train_step, sequence_length, num_episodes_per_iteration,
        num_epochs, per_replica_batch_size, num_replicas_in_sync)
  /\ pc' = "create"
  /\ UNCHANGED <<config, save_model_trigger, steps_per_sec,
                 init_train_step, i, train_step, model_id, policy,
                 step_val, num_steps, varsvc, replay, actor_snapshot,
                 phase_log, fault, process>>

\* Lines 126-129 with per_replica_batch_size None: the product
\* init_train_step * per_replica_batch_size, evaluated first at line 66,
\* raises TypeError, which leaves train().
BatchSizeTypeError ==
  /\ pc = "start"
  /\ per_replica_batch_size_is_none
  /\ pc' = "failed"
  /\ fault' = "TYPE"
  /\ UNCHANGED <<config, init_train_step, learner, varsvc, replay,
                 actor_snapshot, phase_log, process>>

\* Lines 126-129 with a zero divisor: ZeroDivisionError leaves train().
ConfigError ==
  /\ pc = "start"
  /\ ~per_replica_batch_size_is_none
  /\ ZeroDivision(sequence_length, num_episodes_per_iteration, num_epochs)
  /\ pc' = "failed"
  /\ fault' = "CONFIG"
  /\ UNCHANGED <<config, init_train_step, learner, varsvc, replay,
                 actor_snapshot, phase_log, process>>

CreateVariablesModelIdZero ==
  /\ pc = "create"
  /\ train_step' = init_train_step
  /\ model_id' = 0
  /\ save_model_trigger' = [NoTrigger EXCEPT !.last = SaveModelTriggerStart]
  /\ pc' = "init_push"
  /\ UNCHANGED <<config, steps_per_sec,
                 init_train_step, init_iteration, i, policy,
                 step_val, num_steps, varsvc, replay, actor_snapshot,
                 phase_log, fault, process>>

\* Lines 134-139, and the policy saver trigger of lines 162-167.
CreateVariables ==
  /\ pc = "create"
  /\ train_step' = init_train_step
  /\ model_id' = init_iteration
  /\ save_model_trigger' = [NoTrigger EXCEPT !.last = SaveModelTriggerStart]
  /\ pc' = "init_push"
  /\ UNCHANGED <<config, steps_per_sec,
                 init_train_step, init_iteration, i, policy,
                 step_val, num_steps, varsvc, replay, actor_snapshot,
                 phase_log, fault, process>>

\* Line 178: the push call hands the dict to the variable service.
InitialPush ==
  /\ pc = "init_push"
  /\ inflight' = variables
  /\ pushed' = pushed \cup {Live}
  /\ pc' = "INIT_PUSHING"
  /\ UNCHANGED <<config, init_train_step, learner, server, replay,
                 actor_snapshot, phase_log, fault, process>>

\* The service stores the snapshot and the push call of line 178 or of line
\* 266 returns; after the first the loop variable takes its first value
\* (line 251).
PushDone ==
  /\ pc \in {"INIT_PUSHING", "PUSHING"}
  /\ server' = Push(server, inflight)
  /\ inflight' = NoSnapshot
  /\ IF pc = "INIT_PUSHING"
       THEN /\ i' = init_iteration
            /\ phase_log' = Append(phase_log,
                                   [Entry("INIT") EXCEPT !.i = init_iteration])
            /\ pc' = "loop"
       ELSE /\ i' = i
            /\ phase_log' = Append(phase_log, Entry("PUBLISH"))
            /\ pc' = "PURGE"
  /\ UNCHANGED <<config, save_model_trigger, steps_per_sec,
                 init_train_step, init_iteration, train_step, model_id,
                 policy, step_val, num_steps, pushed, replay, actor_snapshot,
                 fault, process>>

----------------------------------------------------------------------------
(* train(): the training loop, lines 251-274.                              *)

LoopHeadNoWait ==
  /\ pc = "loop"
  /\ IF i < num_iterations
       THEN /\ step_val' = train_step
            /\ pc' = "TRAIN"
       ELSE /\ step_val' = step_val
            /\ pc' = "done"
  /\ UNCHANGED <<config, save_model_trigger, steps_per_sec,
                 init_train_step, init_iteration, i, train_step,
                 model_id, policy, num_steps, varsvc, replay, actor_snapshot,
                 phase_log, fault, process>>

LoopHeadOffByOne ==
  /\ pc = "loop"
  /\ IF i <= num_iterations
       THEN /\ step_val' = train_step
            /\ pc' = "WAIT"
       ELSE /\ step_val' = step_val
            /\ pc' = "done"
  /\ UNCHANGED <<config, save_model_trigger, steps_per_sec,
                 init_train_step, init_iteration, i, train_step,
                 model_id, policy, num_steps, varsvc, replay, actor_snapshot,
                 phase_log, fault, process>>

\* Lines 251-254: the range test, then step_val is captured.
LoopHead ==
  /\ pc = "loop"
  /\ IF i < num_iterations
       THEN /\ step_val' = train_step
            /\ pc' = "WAIT"
       ELSE /\ step_val' = step_val
            /\ pc' = "done"
  /\ UNCHANGED <<config, save_model_trigger, steps_per_sec,
                 init_train_step, init_iteration, i, train_step,
                 model_id, policy, num_steps, varsvc, replay, actor_snapshot,
                 phase_log, fault, process>>

WaitForDataTimeout ==
  /\ pc = "WAIT"
  /\ phase_log' = Append(phase_log, Entry("WAIT"))
  /\ pc' = "TRAIN"
  /\ UNCHANGED <<config, init_train_step, learner, varsvc, replay,
                 actor_snapshot, fault, process>>

\* Lines 258-260: learner.wait_for_data() returns once the table can be read.
WaitForData ==
  /\ pc = "WAIT"
  /\ table # <<>>
  /\ phase_log' = Append(phase_log, Entry("WAIT"))
  /\ pc' = "TRAIN"
  /\ UNCHANGED <<config, init_train_step, learner, varsvc, replay,
                 actor_snapshot, fault, process>>

\* Line 261, inside learner.run(): one minibatch update.
TrainMinibatch ==
  /\ pc = "TRAIN"
  /\ table # <<>>
  /\ train_step - step_val < StepsPerIteration
  /\ train_step' = train_step + 1
  /\ policy' = policy + 1
  /\ UNCHANGED <<config, save_model_trigger, steps_per_sec,
                 init_train_step, pc, init_iteration, i, model_id,
                 step_val, num_steps, varsvc, replay, actor_snapshot,
                 phase_log, fault, process>>

\* Line 261, learner.run() returns: the triggers are called with the value
\* of train_step and the version counter moves on.
RunReturn ==
  /\ pc = "TRAIN"
  /\ train_step - step_val >= StepsPerIteration
  /\ save_model_trigger' = TriggerRun(save_model_trigger, train_step)
  /\ model_id' = model_id + 1
  /\ phase_log' = Append(phase_log, [Entry("TRAIN") EXCEPT
                                       !.model_id = model_id + 1])
  /\ pc' = "RATE"
  /\ UNCHANGED <<config, steps_per_sec,
                 init_train_step, init_iteration, i, train_step,
                 policy, step_val, num_steps, varsvc, replay, actor_snapshot,
                 fault, process>>

ComputeRateFromZero ==
  /\ pc = "RATE"
  /\ num_steps' = train_step
  /\ \E run_time \in RunTimes :
       steps_per_sec' = StepsPerSec(train_step, run_time)
  /\ pc' = "PUBLISH"
  /\ fault' = fault
  /\ UNCHANGED <<config, save_model_trigger,
                 init_train_step, init_iteration, i, train_step,
                 model_id, policy, step_val, varsvc, replay, actor_snapshot,
                 phase_log, process>>

\* Lines 262-264. num_steps is a numpy integer, so the division does not
\* raise when the clock did not advance: the rate is then inf or nan.
ComputeRate ==
  /\ pc = "RATE"
  /\ num_steps' = train_step - step_val
  /\ \E run_time \in RunTimes :
       steps_per_sec' = StepsPerSec(train_step - step_val, run_time)
  /\ pc' = "PUBLISH"
  /\ fault' = fault
  /\ UNCHANGED <<config, save_model_trigger,
                 init_train_step, init_iteration, i, train_step,
                 model_id, policy, step_val, varsvc, replay, actor_snapshot,
                 phase_log, process>>

PublishBumpsModelId ==
  /\ pc = "PUBLISH"
  /\ model_id' = model_id + 1
  /\ inflight' = [variables EXCEPT !.model_id = model_id + 1]
  /\ pushed' = pushed \cup {[Live EXCEPT !.model_id = model_id + 1]}
  /\ pc' = "PUSHING"
  /\ UNCHANGED <<config, init_train_step, init_iteration, i, train_step,
                 policy, step_val, num_steps, steps_per_sec,
                 save_model_trigger, server, replay,
                 actor_snapshot, phase_log, fault, process>>

\* Lines 265-266: the push call hands the dict to the variable service.
Publish ==
  /\ pc = "PUBLISH"
  /\ inflight' = variables
  /\ pushed' = pushed \cup {Live}
  /\ pc' = "PUSHING"
  /\ UNCHANGED <<config, init_train_step, learner, server, replay,
                 actor_snapshot, phase_log, fault, process>>

PurgeTwice ==
  /\ pc = "PURGE"
  /\ table' = Clear(table, Len(table))
  /\ clearing' = 0
  /\ window_writes' = 0
  /\ clears' = clears + 1
  /\ phase_log' = Append(phase_log, Entry("PURGE"))
  /\ pc' = "CLEARING"
  /\ UNCHANGED <<config, init_train_step, learner, varsvc, actor_snapshot,
                 fault, process>>

PurgeEverySecondIteration ==
  /\ pc = "PURGE"
  /\ IF (i - init_iteration) % 2 = 1
       THEN /\ clearing' = Len(table)
            /\ window_writes' = 0
            /\ phase_log' = phase_log
            /\ pc' = "CLEARING"
       ELSE /\ clearing' = clearing
            /\ window_writes' = window_writes
            /\ phase_log' = Append(phase_log, Entry("PURGE"))
            /\ pc' = "SUMMARY"
  /\ UNCHANGED <<config, init_train_step, learner, varsvc, table, clears,
                 actor_snapshot, fault, process>>

PurgeNoClear ==
  /\ pc = "PURGE"
  /\ phase_log' = Append(phase_log, Entry("PURGE"))
  /\ pc' = "SUMMARY"
  /\ UNCHANGED <<config, init_train_step, learner, varsvc, replay,
                 actor_snapshot, fault, process>>

\* Lines 267-268: the clear call reaches the table service, which from now on
\* counts the entries present as removed and later writes as new.
Purge ==
  /\ pc = "PURGE"
  /\ clearing' = Len(table)
  /\ window_writes' = 0
  /\ pc' = "CLEARING"
  /\ UNCHANGED <<config, init_train_step, learner, varsvc, table, clears,
                 actor_snapshot, phase_log, fault, process>>

\* The table service has removed the entries and the clear call of line 268
\* returns.
ClearDone ==
  /\ pc = "CLEARING"
  /\ table' = Clear(table, clearing)
  /\ clearing' = 0
  /\ clears' = clears + 1
  /\ phase_log' = Append(phase_log, Entry("PURGE"))
  /\ pc' = "SUMMARY"
  /\ UNCHANGED <<config, init_train_step, learner, varsvc, window_writes,
                 actor_snapshot, fault, process>>

\* Lines 269-274, then the loop variable advances (line 251). No handler
\* surrounds the summary calls: what they raise leaves train(). The rate,
\* computed again at line 273, is handed to the summary writer and is not
\* kept beyond the iteration.
WriteSummaries ==
  /\ pc = "SUMMARY"
  /\ \E ok \in BOOLEAN :
       IF ok
         THEN /\ i' = i + 1
              /\ steps_per_sec' = NoRate
              /\ pc' = "loop"
              /\ fault' = fault
         ELSE /\ i' = i
              /\ steps_per_sec' = steps_per_sec
              /\ pc' = "failed"
              /\ fault' = "OBS"
  /\ UNCHANGED <<config, save_model_trigger,
                 init_train_step, init_iteration, train_step,
                 model_id, policy, step_val, num_steps, varsvc, replay,
                 actor_snapshot, phase_log, process>>

ServiceFaultRetry ==
  /\ pc \in {"WAIT", "TRAIN", "PUBLISH", "PURGE"}
  /\ fault = "none"
  /\ fault' = pc
  /\ UNCHANGED <<config, init_train_step, pc, learner, varsvc, replay,
                 actor_snapshot, phase_log, process>>

\* A service call of the loop raises (service unreachable): nothing catches.
ServiceFault ==
  /\ pc \in {"WAIT", "TRAIN", "PUBLISH", "PURGE"}
  /\ pc' = "failed"
  /\ fault' = pc
  /\ UNCHANGED <<config, init_train_step, learner, varsvc, replay,
                 actor_snapshot, phase_log, process>>

----------------------------------------------------------------------------
(* The process is killed after TRAIN advanced TrainStep and before the     *)
(* push completed, and is started again from the last pushed TrainStep.    *)

Crash ==
  /\ pc \in {"TRAIN", "RATE", "PUBLISH"}
  /\ train_step > step_val
  /\ restarts < MaxRestarts
  /\ restarts' = restarts + 1
  /\ crashed_at' = i
  /\ prev' = [step |-> init_train_step, iteration |-> init_iteration]
  /\ init_train_step' = server.train_step
  /\ policy' = server.policy
  /\ pc' = "start"
  /\ init_iteration' = 0 /\ i' = 0 /\ train_step' = 0 /\ model_id' = 0
  /\ step_val' = 0 /\ num_steps' = 0
  /\ steps_per_sec' = NoRate
  /\ save_model_trigger' = NoTrigger
  /\ phase_log' = <<>>
  /\ UNCHANGED <<config, varsvc, replay, actor_snapshot, fault>>

----------------------------------------------------------------------------
(* Actors: pull the published snapshot, write trajectories, at any time.   *)

ActorPull(a) ==
  /\ server # NoSnapshot
  /\ actor_snapshot[a] # Pull(server)
  /\ actor_snapshot' = [actor_snapshot EXCEPT ![a] = Pull(server)]
  /\ UNCHANGED <<config, init_train_step, pc, learner, varsvc, replay,
                 phase_log, fault, process>>

ActorWrite(a) ==
  /\ actor_snapshot[a] # NoSnapshot
  /\ Len(table) - clearing < MaxTable
  /\ table' = Append(table, [ver |-> actor_snapshot[a].model_id,
                             run |-> restarts,
                             win |-> ClearsStarted,
                             during |-> (pc = "CLEARING")])
  /\ window_writes' = window_writes + 1
  /\ UNCHANGED <<config, init_train_step, pc, learner, varsvc, clearing,
                 clears, actor_snapshot, phase_log, fault, process>>

----------------------------------------------------------------------------
Next ==
  \/ ComputeInit
  \/ CreateVariables
  \/ InitialPush
  \/ PushDone
  \/ LoopHead
  \/ WaitForData
  \/ TrainMinibatch
  \/ RunReturn
  \/ ComputeRate
  \/ Publish
  \/ Purge
  \/ ClearDone
  \/ WriteSummaries
  \/ ServiceFault
  \/ Crash
  \/ \E a \in OneActor : ActorPull(a)
  \/ \E a \in OneActor : ActorWrite(a)

Spec == Init /\ [][Next]_vars

----------------------------------------------------------------------------
(* The same program when no step fails: no service call raises and the     *)
(* process is not killed. The learner process keeps running and the actors *)
(* keep producing data.                                                    *)

LearnerStep ==
  \/ ComputeInit
  \/ CreateVariables
  \/ InitialPush
  \/ PushDone
  \/ LoopHead
  \/ WaitForData
  \/ TrainMinibatch
  \/ RunReturn
  \/ ComputeRate
  \/ Publish
  \/ Purge
  \/ ClearDone
  \/ WriteSummaries

ActorStep == \E a \in OneActor : ActorPull(a) \/ ActorWrite(a)

NextLive == LearnerStep \/ ActorStep

SpecLive == Init /\ [][NextLive]_vars
                 /\ WF_vars(LearnerStep) /\ WF_vars(ActorStep)

----------------------------------------------------------------------------
(* The same program, no step failing, with two actors that pull and write  *)
(* concurrently.                                                           *)

NextActors ==
  \/ LearnerStep
  \/ \E a \in Actors : ActorPull(a)
  \/ \E a \in Actors : ActorWrite(a)

SpecActors == Init /\ [][NextActors]_vars

----------------------------------------------------------------------------
(* The same program started with arbitrary, possibly invalid, dimensions.  *)

InitAny ==
  /\ sequence_length \in InvalidDims
  /\ num_episodes_per_iteration \in InvalidDims
  /\ num_epochs \in InvalidDims
  /\ per_replica_batch_size \in BatchSizes
  /\ per_replica_batch_size_is_none = FALSE
  /\ num_replicas_in_sync \in ReplicaCounts
  /\ num_iterations \in IterationCounts
  /\ init_train_step \in InitSteps
  /\ InitRest

NextAny == Next \/ ConfigError

SpecAny == InitAny /\ [][NextAny]_vars

----------------------------------------------------------------------------
(* The same program with the minibatch size possibly unset (None).         *)

InitNone ==
  /\ sequence_length \in SequenceLengths
  /\ num_episodes_per_iteration \in EpisodeCounts
  /\ num_epochs \in EpochCounts
  /\ per_replica_batch_size \in BatchSizes
  /\ per_replica_batch_size_is_none \in BOOLEAN
  /\ num_replicas_in_sync \in ReplicaCounts
  /\ num_iterations \in IterationCounts
  /\ init_train_step \in InitSteps
  /\ InitRest

NextNone == Next \/ BatchSizeTypeError

SpecNone == InitNone /\ [][NextNone]_vars

----------------------------------------------------------------------------
(* compute_init_iteration on its own: evaluated, then evaluated again with *)
(* another init_train_step and the other five arguments held fixed.        *)

ExampleCase == [its |-> 1600, sl |-> 100, ne |-> 1024, ep |-> 4,
                bs |-> 32, nr |-> 8]

Args == [its |-> init_train_step, sl |-> sequence_length,
         ne |-> num_episodes_per_iteration, ep |-> num_epochs,
         bs |-> per_replica_batch_size, nr |-> num_replicas_in_sync]

FnSteps == (0..MaxFnStep) \cup {ExampleCase.its}

InitFn ==
  /\ \/ /\ sequence_length \in 1..MaxFnDim
        /\ num_episodes_per_iteration \in 1..MaxFnDim
        /\ num_epochs \in 1..MaxFnDim
        /\ per_replica_batch_size \in 0..MaxFnBatch
        /\ num_replicas_in_sync \in 0..MaxFnBatch
     \/ /\ sequence_length = ExampleCase.sl
        /\ num_episodes_per_iteration = ExampleCase.ne
        /\ num_epochs = ExampleCase.ep
        /\ per_replica_batch_size = ExampleCase.bs
        /\ num_replicas_in_sync = ExampleCase.nr
  /\ per_replica_batch_size_is_none = FALSE
  /\ init_train_step \in FnSteps
  /\ num_iterations = 0
  /\ InitRest

FnEval ==
  /\ pc = "start"
  /\ init_iteration' = compute_init_iteration(
        init_train_step, sequence_length, num_episodes_per_iteration,
        num_epochs, per_replica_batch_size, num_replicas_in_sync)
  /\ pc' = "computed"
  /\ UNCHANGED <<config, save_model_trigger, steps_per_sec,
                 init_train_step, i, train_step, model_id, policy,
                 step_val, num_steps, varsvc, replay, actor_snapshot,
                 phase_log, fault, process>>

FnAgain(its) ==
  /\ pc = "computed"
  /\ its # init_train_step
  /\ prev' = [step |-> init_train_step, iteration |-> init_iteration]
  /\ init_train_step' = its
  /\ init_iteration' = compute_init_iteration(
        its, sequence_length, num_episodes_per_iteration,
        num_epochs, per_replica_batch_size, num_replicas_in_sync)
  /\ UNCHANGED <<config, save_model_trigger, steps_per_sec,
                 pc, i, train_step, model_id, policy, step_val,
                 num_steps, varsvc, replay, actor_snapshot, phase_log, fault,
                 restarts, crashed_at>>

NextFn == FnEval \/ \E its \in FnSteps : FnAgain(its)

SpecFn == InitFn /\ [][NextFn]_vars

----------------------------------------------------------------------------
(* Properties.                                                             *)

TableIdx == 1..Len(table)
LogIdx == 1..Len(phase_log)
LoopPhases == <<"WAIT", "TRAIN", "PUBLISH", "PURGE">>
PushIdx == {k \in LogIdx : phase_log[k].phase \in {"INIT", "PUBLISH"}}

\* sequence_length * num_episodes_per_iteration is a whole number of global
\* batches (the relation of the comment at lines 88-91).
WholeBatches ==
  (sequence_length * num_episodes_per_iteration)
    % (per_replica_batch_size * num_replicas_in_sync) = 0

Resumed == restarts > 0 /\ pc \notin {"start", "failed"}

\* C1 as stated: every trajectory in the table while TRAIN reads it was
\* collected under the most recently published policy version.
C1_TrainReadsOnlyLatestVersion ==
  pc = "TRAIN" => \A k \in TableIdx : table[k].ver = server.model_id

\* The entry was written in the current window of the program: by this run
\* of train(), after the latest clear call this run has made; or, while this
\* run has not yet made a clear call, it was left in the table by an earlier
\* run.
InWindow(e) ==
  \/ e.run = restarts /\ e.win = ClearsStarted
  \/ e.run < restarts /\ ClearsStarted = 0

\* C1 amended: every trajectory in the table while TRAIN of iteration i reads
\* it was written after the clear call of iteration i - 1 (for the first
\* iteration of a run: since the run started, or it was left in the table
\* by the run before), by an actor holding the model_id of some push call;
\* that version may differ from the most recently published one.
C1_TrainReadsOnlyCurrentWindow ==
  pc = "TRAIN" =>
    \A k \in TableIdx :
      /\ InWindow(table[k])
      /\ \E s \in pushed : s.model_id = table[k].ver

\* TRAIN of a second iteration reads two trajectories written after the
\* clear of the first: one under a version older than the published one and
\* one under the published version.
C1_Witness ==
  /\ pc = "TRAIN"
  /\ i = init_iteration + 1
  /\ Len(table) = 2
  /\ \A k \in TableIdx : table[k].run = restarts /\ table[k].win = 1
  /\ table[1].ver < server.model_id
  /\ table[2].ver = server.model_id

\* C2: the completed phases of a run are INIT, then WAIT, TRAIN, PUBLISH,
\* PURGE of iteration init_iteration, then the same four of the next
\* iteration, and so on; a phase is in progress only when the phase before
\* it, of the same iteration, is the last one completed, and WAIT of an
\* iteration only when the PURGE of the iteration before it is.
C2_PhasesInOrder ==
  /\ \A k \in LogIdx :
       IF k = 1
         THEN phase_log[k].phase = "INIT"
         ELSE /\ phase_log[k].phase = LoopPhases[((k - 2) % 4) + 1]
              /\ phase_log[k].i = init_iteration + ((k - 2) \div 4)
  /\ pc \in {"WAIT", "TRAIN", "PUBLISH", "PURGE"} =>
       /\ phase_log # <<>>
       /\ LET n == Len(phase_log) - 1
          IN /\ i = init_iteration + (n \div 4)
             /\ pc = LoopPhases[(n % 4) + 1]
             /\ pc = "WAIT" /\ n > 0 =>
                  /\ phase_log[n + 1].phase = "PURGE"
                  /\ phase_log[n + 1].i = i - 1

\* The WAIT of a second iteration is in progress.
C2_Witness ==
  /\ pc = "WAIT"
  /\ Len(phase_log) = 5
  /\ phase_log[5].phase = "PURGE"

\* C3 as stated: the initial push carries model_id = init_iteration and the
\* push of each loop iteration carries model_id = that iteration's index.
C3_PushCarriesIterationIndex ==
  \A k \in LogIdx :
    phase_log[k].phase \in {"INIT", "PUBLISH"} =>
      phase_log[k].model_id = phase_log[k].i

\* C3 amended: the initial push carries model_id = init_iteration; the push
\* of loop iteration i carries model_id = i + 1, so that ModelID equals the
\* index of the iteration that starts next (at the loop head and in WAIT).
C3_PushCarriesNextIterationIndex ==
  /\ \A k \in LogIdx :
       /\ phase_log[k].phase = "INIT" =>
            phase_log[k].model_id = init_iteration
       /\ phase_log[k].phase = "PUBLISH" =>
            phase_log[k].model_id = phase_log[k].i + 1
  /\ pc \in {"loop", "WAIT"} => model_id = i

\* A loop push has completed after a resume at a non-zero index.
C3_Witness ==
  /\ init_iteration > 0
  /\ \E k \in LogIdx : phase_log[k].phase = "PUBLISH"

\* The snapshot of the last push call of this run that has returned.
LastPush ==
  LET k == CHOOSE j \in PushIdx : \A m \in PushIdx : m <= j
  IN [policy |-> phase_log[k].policy, train_step |-> phase_log[k].train_step,
      model_id |-> phase_log[k].model_id]

\* C4: whatever the service holds or a reader holds is, with its three keys,
\* the policy, train_step and model_id the learner had together at one push
\* call; once a push of this run has returned the service holds the values
\* of the last such push, also while the next push is in flight and while
\* the learner's variables change in TRAIN.
C4_ReadersSeeWholePushes ==
  /\ server # NoSnapshot => Pull(server) \in pushed
  /\ \A a \in Actors :
       actor_snapshot[a] # NoSnapshot => actor_snapshot[a] \in pushed
  /\ PushIdx # {} => server = LastPush

\* While the push of a second iteration is in flight one actor holds the
\* snapshot of the push before it and another that of an older push.
C4_Witness ==
  /\ pc = "PUSHING"
  /\ i = init_iteration + 1
  /\ inflight # server
  /\ \E a, b \in Actors :
       /\ actor_snapshot[a] = server
       /\ actor_snapshot[b] # NoSnapshot
       /\ actor_snapshot[b].model_id < server.model_id

\* C5: apart from the entries a clear in progress is removing, the table
\* holds only trajectories written in the current window of the program, and
\* all of them: once the clear call of an iteration has returned nothing
\* written before the call is left, and a write that arrived while the clear
\* was in progress is kept.
C5_NothingSurvivesClear ==
  /\ \A k \in TableIdx : k > clearing => InWindow(table[k])
  /\ Len(table) - clearing = window_writes
  /\ pc # "CLEARING" => clearing = 0

\* PURGE has just completed: an entry was removed, and the table holds a
\* write that arrived during the clear and a write that arrived after it.
C5_Witness ==
  /\ pc = "SUMMARY"
  /\ clears > 0
  /\ Len(table) = 2
  /\ table[1].during
  /\ ~table[2].during

\* C6 as stated: a run restarted from the last pushed TrainStep starts at
\* the index of the interrupted iteration.
C6_ResumesAtInterrupted ==
  Resumed => init_iteration = crashed_at

\* C6 amended: the same, provided sequence_length *
\* num_episodes_per_iteration is a multiple of per_replica_batch_size *
\* num_replicas_in_sync.
C6_ResumesAtInterruptedWholeBatches ==
  (Resumed /\ WholeBatches) => init_iteration = crashed_at

\* A run interrupted in its second or a later iteration has resumed there.
C6_Witness ==
  /\ Resumed
  /\ WholeBatches
  /\ pc = "WAIT"
  /\ crashed_at > prev.iteration
  /\ i = crashed_at

\* C7: for non-negative init_train_step, batch size and replica count and
\* positive divisors the result r is the floor of the quotient, i.e.
\* r * d <= n < (r + 1) * d; it is 0 for init_train_step 0 and 1 for
\* (1600, 100, 1024, 4, 32, 8).
C7_FloorOfQuotient ==
  pc = "computed" =>
    LET n == init_train_step * per_replica_batch_size * num_replicas_in_sync
        d == sequence_length * num_episodes_per_iteration * num_epochs
    IN /\ init_iteration * d <= n
       /\ n < (init_iteration + 1) * d
       /\ init_train_step = 0 => init_iteration = 0
       /\ Args = ExampleCase => init_iteration = 1

\* The example of the specification has been evaluated.
C7_Witness ==
  /\ pc = "computed"
  /\ Args = ExampleCase
  /\ init_iteration = 1

\* C8: with the other five arguments fixed, the result is non-negative and
\* ordered as the init_train_step values are.
C8_MonotoneInStep ==
  pc = "computed" =>
    /\ init_iteration >= 0
    /\ prev.step >= 0 =>
         /\ prev.step <= init_train_step => prev.iteration <= init_iteration
         /\ prev.step >= init_train_step => prev.iteration >= init_iteration

\* Two evaluations with a larger step giving a strictly larger result.
C8_Witness ==
  /\ pc = "computed"
  /\ prev.step >= 0
  /\ prev.step < init_train_step
  /\ prev.iteration < init_iteration

\* C9 as stated: with a non-positive sequence_length,
\* num_episodes_per_iteration or num_epochs nothing is pushed and no phase
\* of the loop is entered.
C9_InvalidDimsNeverStart ==
  (sequence_length <= 0 \/ num_episodes_per_iteration <= 0 \/ num_epochs <= 0)
    => /\ pushed = {}
       /\ phase_log = <<>>
       /\ pc \notin {"WAIT", "TRAIN", "PUBLISH", "PURGE"}

\* C10 as stated: a failure of a timing or summary step does not end the
\* loop.
C10_ObservabilityFailureSwallowed ==
  fault = "OBS" => pc # "failed"


\* C11 as stated: with per_replica_batch_size None and an otherwise valid
\* configuration, initialization is not an error: train() does not leave
\* with the type error of an unset minibatch size.
C11_UnsetBatchSizeSupported ==
  per_replica_batch_size_is_none => ~(pc = "failed" /\ fault = "TYPE")

\* C12: TRAIN, the rate computation, PUBLISH and PURGE of an iteration are
\* entered only after a write reached the table since its last clear: while
\* no actor writes, the loop stays in WAIT and nothing else moves it forward.
C12_NoDataNoTrain ==
  pc \in {"TRAIN", "RATE", "PUBLISH", "PUSHING", "PURGE"} => window_writes > 0

\* The loop waits, in a second iteration, on a table nothing was written to
\* since the clear.
C12_Witness ==
  /\ pc = "WAIT"
  /\ clears > 0
  /\ window_writes = 0
  /\ table = <<>>

\* C13: once learner.run() has returned, the num_steps measured by the loop
\* is num_epochs * minibatches per epoch, and train_step is the value
\* captured before WAIT plus that product; it is 128 for 4 epochs of 32
\* minibatches.
C13_RunAdvancesByEpochsTimesMinibatches ==
  pc \in {"PUBLISH", "PUSHING", "PURGE", "CLEARING", "SUMMARY"} =>
    /\ num_steps = num_epochs * MinibatchesPerEpoch
    /\ train_step = step_val + num_epochs * MinibatchesPerEpoch
    /\ (num_epochs = 4 /\ MinibatchesPerEpoch = 32) => num_steps = 128

\* The run of 4 epochs of 32 minibatches has been measured.
C13_Witness ==
  /\ pc = "PUBLISH"
  /\ num_epochs = 4
  /\ MinibatchesPerEpoch = 32
  /\ num_steps = 128

Max0(x) == IF x > 0 THEN x ELSE 0

\* The indices of the iterations whose phase p has completed.
Completed(p) == {phase_log[k].i : k \in {j \in LogIdx : phase_log[j].phase = p}}

\* The loop has ended after the initial push and exactly
\* max(0, num_iterations - init_iteration) cycles, with the indices
\* init_iteration .. num_iterations - 1.
DoneExact ==
  /\ pc = "done"
  /\ Len(phase_log) = 1 + 4 * Max0(num_iterations - init_iteration)
  /\ phase_log[1].phase = "INIT"
  /\ \A p \in {"WAIT", "TRAIN", "PUBLISH", "PURGE"} :
       Completed(p) = init_iteration .. (num_iterations - 1)

\* C14: when no step fails and the actors keep writing, the loop ends, and
\* it ends after exactly max(0, num_iterations - init_iteration) cycles with
\* the indices init_iteration .. num_iterations - 1 (none, only the initial
\* push, when init_iteration >= num_iterations).
C14_TerminatesAfterConfiguredIterations ==
  <>(fault # "none" \/ DoneExact)

\* The loop has ended after two cycles.
C14_Witness ==
  /\ pc = "done"
  /\ fault = "none"
  /\ num_iterations - init_iteration = 2
  /\ Len(phase_log) = 9

PurgeIdx == {k \in LogIdx : phase_log[k].phase = "PURGE"}

\* C15: every clear of a run follows the TRAIN of its own iteration, no
\* iteration is cleared twice, and every iteration before the current one
\* has been cleared: when WAIT or TRAIN of iteration i reads, the clears of
\* the run are those of init_iteration .. i - 1, and the table server has
\* executed as many clears as the loop has completed PURGE phases.
C15_ClearOncePerIterationAfterTrain ==
  /\ \A k \in PurgeIdx :
       /\ k > 2
       /\ phase_log[k - 2].phase = "TRAIN"
       /\ phase_log[k - 2].i = phase_log[k].i
       /\ \A j \in PurgeIdx : phase_log[j].i = phase_log[k].i => j = k
  /\ pc \in {"loop", "WAIT", "TRAIN", "RATE", "PUBLISH", "PUSHING", "PURGE",
            "CLEARING"} =>
       Completed("PURGE") = init_iteration .. (i - 1)
  /\ restarts = 0 => clears = Cardinality(PurgeIdx)

\* The second iteration reads after the clear of the first.
C15_Witness ==
  /\ pc = "TRAIN"
  /\ train_step > step_val
  /\ clears = 1
  /\ Cardinality(PurgeIdx) = 1

\* The snapshot the variable service holds is the one of the last completed
\* push of this run.
ServerAtLastPush ==
  \E k \in LogIdx :
    /\ phase_log[k].phase \in {"INIT", "PUBLISH"}
    /\ \A j \in LogIdx : j > k => phase_log[j].phase \notin {"INIT", "PUBLISH"}
    /\ server.model_id = phase_log[k].model_id
    /\ server.train_step = phase_log[k].train_step

\* C16: a fault of WAIT, TRAIN, PUBLISH or PURGE ends the loop at once: the
\* process has left train(), the faulted phase is the one that was in
\* progress and is not completed, so no later phase ran. After a failed push
\* the service still holds the previous push and the table was not cleared
\* for that iteration.
C16_FaultEndsLoop ==
  fault \in {"WAIT", "TRAIN", "PUBLISH", "PURGE"} =>
    /\ pc = "failed"
    /\ phase_log # <<>>
    /\ LET n == Len(phase_log) - 1
       IN /\ fault = LoopPhases[(n % 4) + 1]
          /\ i = init_iteration + (n \div 4)
    /\ fault = "PUBLISH" =>
         /\ ServerAtLastPush
         /\ server.model_id = model_id - 1
         /\ i \notin Completed("PUBLISH")
         /\ i \notin Completed("PURGE")
         /\ table # <<>>

\* The push of a second iteration has failed.
C16_Witness ==
  /\ pc = "failed"
  /\ fault = "PUBLISH"
  /\ i > init_iteration

\* C17: the policy saver trigger fires at its first call, whatever the
\* starting train_step, and two successive firings are at least
\* num_episodes_per_iteration train steps apart.
C17_SaveTriggerFiresFirstThenPerInterval ==
  LET t == save_model_trigger
  IN /\ t.called # <<>> =>
          /\ t.fired # <<>>
          /\ t.fired[1] = t.called[1]
     /\ \A k \in 2..Len(t.fired) :
          t.fired[k] - t.fired[k - 1] >= num_episodes_per_iteration
     /\ t.fired # <<>> => t.last = t.fired[Len(t.fired)]

\* From a non-zero starting train_step the trigger has fired at its first
\* call and has been called again without firing.
C17_Witness ==
  /\ init_train_step > 0
  /\ Len(save_model_trigger.called) = 2
  /\ Len(save_model_trigger.fired) = 1

\* C18: within a process run train_step changes only by one minibatch update
\* of TRAIN, upwards, and model_id changes only when learner.run() returns,
\* by one, before the push; so model_id is i until TRAIN ends and i + 1 from
\* then to the end of the iteration. (The variables are created at start-up
\* and are gone when the process is killed.)
C18_OnlyTrainMovesTrainStep ==
  [][/\ (train_step' # train_step /\ pc # "create" /\ pc' # "start") =>
          /\ pc = "TRAIN" /\ pc' = "TRAIN"
          /\ train_step' = train_step + 1
     /\ (model_id' # model_id /\ pc # "create" /\ pc' # "start") =>
          /\ pc = "TRAIN" /\ pc' = "RATE"
          /\ model_id' = model_id + 1
     /\ pc \in {"loop", "WAIT", "TRAIN"} => model_id = i
     /\ pc \in {"RATE", "PUBLISH", "PUSHING", "PURGE", "CLEARING", "SUMMARY"} =>
          model_id = i + 1
    ]_vars

\* The second iteration of a run has trained and not yet pushed.
C18_Witness ==
  /\ pc = "PUBLISH"
  /\ i = init_iteration + 1
  /\ model_id = init_iteration + 2
  /\ train_step > init_train_step

\* C19: in a run started from train_step 0 whose sequence_length *
\* num_episodes_per_iteration is a whole number of global batches, at the
\* head of the loop after k completed iterations compute_init_iteration of
\* the current train_step is k, and so is model_id; a run restarted from the
\* train_step such a run pushed starts its loop at that k with model_id k.
C19_ResumeRoundTrip ==
  /\ (restarts = 0 /\ init_train_step = 0 /\ WholeBatches /\ pc = "loop") =>
       /\ compute_init_iteration(
            train_step, sequence_length, num_episodes_per_iteration,
            num_epochs, per_replica_batch_size, num_replicas_in_sync) = i
       /\ model_id = i
       /\ server.train_step = train_step
  /\ (restarts > 0 /\ prev.step = 0 /\ WholeBatches /\ pc = "init_push") =>
       /\ init_train_step = init_iteration * StepsPerIteration
       /\ model_id = init_iteration

\* Two iterations have completed in a run started from train_step 0.
C19_Witness ==
  /\ restarts = 0
  /\ init_train_step = 0
  /\ WholeBatches
  /\ pc = "loop"
  /\ i = 2
  /\ train_step > 0

\* C20: the pushes of a run carry model_id init_iteration, init_iteration + 1,
\* ... in this order, one more with each push, and train_step values that
\* never decrease; the service holds the snapshot of the last push.
C20_PublishedVersionsAscend ==
  phase_log # <<>> =>
    /\ \A k \in PushIdx :
         /\ phase_log[k].model_id =
              init_iteration + Cardinality({j \in PushIdx : j < k})
         /\ \A j \in PushIdx :
              j < k => phase_log[j].train_step <= phase_log[k].train_step
    /\ server.model_id = init_iteration + Cardinality(PushIdx) - 1
    /\ ServerAtLastPush

\* Three pushes of one run, the last with a larger train_step.
C20_Witness ==
  /\ Cardinality(PushIdx) = 3
  /\ server.model_id = init_iteration + 2
  /\ server.train_step > init_train_step

====
